---- MODULE Spec2Model ----
(***************************************************************************)
(* A model of the parallelscriptures server (src/server.py) and of the     *)
(* corpus writer (src/tools/fetchBooksWebsite.py).                         *)
(*                                                                         *)
(*   Spec            the account system, one request handler per action    *)
(*   SpecSignupRace  two signup requests interleaved at the lookup/commit  *)
(*   SpecApi         /api/books (with its TTL cache), /api/chapter and     *)
(*                   /api/intro, one request per action                    *)
(*   SpecCacheRace   two /api/books lookups interleaved step by step       *)
(*   SpecPath        the corpus writer's output path, for every code       *)
(***************************************************************************)
EXTENDS Integers, Sequences, FiniteSets, TLC

VARIABLES
    users,          \* the users table: a sequence of rows, the id is the index
    session,        \* per client, the Flask session: {} or {user_id}
    now,            \* the clock, in seconds
    resp,           \* the last response, with the mail and token calls it made
    smtpConfigured, \* SMTP_HOST, SMTP_USER and SMTP_PASS are all set
    showDevLinks,   \* app.config["SHOW_DEV_LINKS"]
    spc,            \* per client, the position of a stepwise signup request
    sargs,          \* per client, the form of that signup request
    cache,          \* _BOOKS_CACHE: per language, {} or {[at, data]}
    apiResp,        \* the last response of an /api/ endpoint, with its fetches
    tpc,            \* per worker thread, its position in _get_books_for_lang
    tloc,           \* per worker thread, the locals of _get_books_for_lang
    platform,       \* the corpus writer's os.path flavour: "posix" or "nt"
    lang_code,      \* the corpus writer's input: the 'code' of a languages.json entry
    full_path       \* the corpus writer's output path: {} or {path}

authVars == <<users, session, resp, smtpConfigured, showDevLinks, spc, sargs>>
apiVars == <<cache, apiResp, tpc, tloc>>
pathVars == <<platform, lang_code, full_path>>
vars == <<authVars, now, apiVars, pathVars>>

----------------------------------------------------------------------------
(* Bounds of the model *)

MaxUsers == 2
MaxNow == 3601
TickStep == 3601

MaxApiNow == 172800
PartWay == 8
MaxCodeLen == 3
ApiTickStep == 43200

Clients == {"c1", "c2"}

\* The worker threads that serve /api/books at once
Threads == {"t1", "t2"}

\* The clients whose requests Spec follows one at a time
Callers == {"c1"}

(* The program's constants *)
SECURITY_TOKEN_MAX_AGE == 3600
MIN_PASSWORD_LEN == 8

----------------------------------------------------------------------------
(* Strings the handlers inspect character by character are sequences of    *)
(* one-character strings; passwords, of which only the length is read,     *)
(* are strings.                                                            *)

RawEmails == { <<>>, <<" ">>, <<"a">>, <<" ", "A", " ">>, <<"b">> }
\* Passwords of 0, 7, 8 and 9 characters, as each form is given them
SignupPasswords == { "", "short77", "longpass" }
LoginPasswords == { "short77", "longpass", "password2" }
ResetPasswords == { "short77", "password2" }

IsSpace(ch) == ch = " "

LowerChar(ch) ==
    CASE ch = "A" -> "a"
      [] ch = "B" -> "b"
      [] ch = "P" -> "p"
      [] ch = "O" -> "o"
      [] ch = "R" -> "r"
      [] ch = "N" -> "n"
      [] ch = "E" -> "e"
      [] OTHER -> ch

RECURSIVE LStrip(_)
LStrip(s) == IF s # <<>> /\ IsSpace(Head(s)) THEN LStrip(Tail(s)) ELSE s

RECURSIVE RStrip(_)
RStrip(s) ==
    IF s # <<>> /\ IsSpace(s[Len(s)]) THEN RStrip(SubSeq(s, 1, Len(s) - 1)) ELSE s

Strip(s) == RStrip(LStrip(s))

Lower(s) == [i \in 1..Len(s) |-> LowerChar(s[i])]

\* (request.form.get("email") or "").strip().lower()
NormalizeEmail(raw) == Lower(Strip(raw))

----------------------------------------------------------------------------
(* The users table *)

\* generate_password_hash / check_password_hash: the hash is not the password,
\* and a password checks against the hash made from it and no other
PasswordHash(raw) == <<"pbkdf2:sha256", raw>>

check_password(u, raw) == u.password_hash = PasswordHash(raw)

UserIds == DOMAIN users

\* User.query.filter_by(email=email).first()
FindByEmail(email) == { i \in UserIds : users[i].email = email }

\* User.query.get(uid) / db.session.get(User, uid)
UserExists(uid) == uid \in UserIds

NewUser(email, password) ==
    [ email |-> email,
      password_hash |-> PasswordHash(password),
      created_at |-> now,
      email_verified_at |-> {} ]

----------------------------------------------------------------------------
(* Signed tokens.  A token is what a client can put in a request: a string *)
(* that is no signed payload at all, or a payload with the key it was      *)
(* signed with and the time it was signed at.                              *)

Ops == {"verify", "reset", "missing"}

UidInt(n) == [k |-> "int", n |-> n, s |-> ""]
UidStr(s) == [k |-> "str", n |-> 0, s |-> s]
UidNull == [k |-> "null", n |-> 0, s |-> ""]
UidMissing == [k |-> "missing", n |-> 0, s |-> ""]

UidInputs ==
    {UidInt(n) : n \in 1..MaxUsers} \cup {UidStr("1"), UidStr("abc"), UidNull, UidMissing}

Malformed == [kind |-> "malformed", key |-> "other", iat |-> 0, op |-> "missing", uid |-> UidMissing]

SignedToken(key, iat, op, uid) ==
    [kind |-> "signed", key |-> key, iat |-> iat, op |-> op, uid |-> uid]

\* _sign({"uid": u.id, "op": op})
Sign(id, op) == SignedToken("server", now, op, UidInt(id))

\* The tokens a request can carry: no token at all, tokens signed with
\* another key, tokens the server key signed TickStep ago, and every payload
\* signed with the server key just now
TokenInputs ==
    {Malformed}
    \cup { SignedToken("other", now, op, UidInt(1)) : op \in {"verify", "reset"} }
    \cup { SignedToken("server", now - TickStep, op, UidInt(n)) :
             op \in {"verify", "reset"}, n \in {m \in 1..MaxUsers : TickStep <= now} }
    \cup { SignedToken("server", now, op, uid) : op \in Ops, uid \in UidInputs }

\* _unsign(token, max_age): "bad" for BadSignature, "expired" for SignatureExpired
Unsign(token, max_age) ==
    IF token.kind # "signed" \/ token.key # "server" THEN "bad"
    ELSE IF now - token.iat > max_age THEN "expired"
    ELSE "ok"

\* int(data["uid"]): the integer, or the exception raised
IntOfUid(uid) ==
    CASE uid.k = "missing" -> [exc |-> "KeyError", n |-> 0]
      [] uid.k = "null" -> [exc |-> "TypeError", n |-> 0]
      [] uid.k = "int" -> [exc |-> "", n |-> uid.n]
      [] uid.k = "str" /\ uid.s = "1" -> [exc |-> "", n |-> 1]
      [] uid.k = "str" /\ uid.s = "2" -> [exc |-> "", n |-> 2]
      [] OTHER -> [exc |-> "ValueError", n |-> 0]

\* The try block of verify_email and reset_password: the exception it ends
\* with ("" for none) and the uid it yields
DecodeToken(token, wantOp) ==
    LET u == Unsign(token, SECURITY_TOKEN_MAX_AGE) IN
    IF u = "bad" THEN [exc |-> "BadSignature", n |-> 0]
    ELSE IF u = "expired" THEN [exc |-> "SignatureExpired", n |-> 0]
    ELSE IF token.op # wantOp THEN [exc |-> "BadSignature", n |-> 0]
    ELSE IntOfUid(token.uid)

\* except (BadSignature, SignatureExpired, KeyError, ValueError)
Caught(exc) == exc \in {"BadSignature", "SignatureExpired", "KeyError", "ValueError"}

----------------------------------------------------------------------------
(* Responses.  A response records what the client sees (status, message,   *)
(* dev_link, the /api/me body) and what the handler called on the way:     *)
(* the tokens it signed and the address it handed to _send_email.          *)

Response(ep, c, status, msg, dev_link, signed, mail_to, me) ==
    [ ep |-> ep, client |-> c, status |-> status, msg |-> msg,
      dev_link |-> dev_link, signed |-> signed, mail_to |-> mail_to, me |-> me ]

Plain(ep, c, status, msg) == Response(ep, c, status, msg, {}, {}, {}, {})

NoResponse == Plain("none", "c1", 0, "")

\* Whether the SMTP conversation of one send goes through; without SMTP
\* settings there is no conversation
SmtpOutcomes == IF smtpConfigured THEN BOOLEAN ELSE {FALSE}

\* _send_email: False when SMTP is not configured or the send raises
Sent(smtpOk) == smtpConfigured /\ smtpOk

\* dev_link=(link if (not sent and app.config["SHOW_DEV_LINKS"]) else None)
DevLink(token, sent) == IF ~sent /\ showDevLinks THEN {token} ELSE {}

\* The response of a handler that signs a token and mails its link
Mailed(ep, c, msg, token, to_addr, smtpOk) ==
    Response(ep, c, 200, msg, DevLink(token, Sent(smtpOk)), {token}, {to_addr}, {})

\* load_current_user: g.user
CurrentUser(c) == { i \in session[c] : UserExists(i) }

----------------------------------------------------------------------------
(* Each handler is an operator from the request (and the state it runs in) *)
(* to its outcome: the response, the users table and the caller's session  *)
(* it leaves.  The action of a handler applies its outcome.                *)

Outcome(r, table, sess) == [resp |-> r, users |-> table, session |-> sess]

\* An outcome that writes nothing
Refuse(c, r) == Outcome(r, users, session[c])

Apply(c, o) ==
    /\ resp' = o.resp
    /\ users' = o.users
    /\ session' = [session EXCEPT ![c] = o.session]

(* POST /signup *)

\* signup without its length check
SignupErrorAnyLength(email, password) ==
    IF email = <<>> \/ password = ""
    THEN "Please provide a valid email and a password (min 8 chars)."
    ELSE IF FindByEmail(email) # {}
    THEN "Email is already registered."
    ELSE ""

\* The two early returns of signup: the error message, or "" to go on
SignupError(email, password) ==
    IF email = <<>> \/ password = "" \/ Len(password) < MIN_PASSWORD_LEN
    THEN "Please provide a valid email and a password (min 8 chars)."
    ELSE IF FindByEmail(email) # {}
    THEN "Email is already registered."
    ELSE ""

\* A users table whose email column has no unique index
UniqueViolationNoIndex(email) == FALSE

\* The unique index on users.email, checked by the database at commit
UniqueViolation(email) == FindByEmail(email) # {}

\* db.session.add(u); db.session.commit() and what follows it in signup
SignupCommitResult(c, email, password, smtpOk) ==
    IF UniqueViolation(email)
    THEN \* IntegrityError: the commit fails and the request ends in a 500
         Refuse(c, Plain("signup", c, 500, "IntegrityError"))
    ELSE LET id == Len(users) + 1 IN
         Outcome(Mailed("signup", c, "verify_notice", Sign(id, "verify"), email, smtpOk),
                 Append(users, NewUser(email, password)),
                 {id})

SignupResult(c, raw, password, smtpOk) ==
    LET email == NormalizeEmail(raw)
        err == SignupError(email, password) IN
    IF err # "" THEN Refuse(c, Plain("signup", c, 400, err))
    ELSE SignupCommitResult(c, email, password, smtpOk)

Signup(c, raw, password, smtpOk) ==
    /\ Len(SignupResult(c, raw, password, smtpOk).users) <= MaxUsers
    /\ Apply(c, SignupResult(c, raw, password, smtpOk))
    /\ UNCHANGED <<now, smtpConfigured, showDevLinks, spc, sargs, apiVars, pathVars>>

\* login without its test of email_verified_at
LoginResultUnverified(c, raw, password) ==
    LET email == NormalizeEmail(raw)
        found == FindByEmail(email) IN
    IF found = {} \/ \A i \in found : ~check_password(users[i], password)
    THEN Refuse(c, Plain("login", c, 401, "Invalid email or password."))
    ELSE Outcome(Plain("login", c, 302, ""), users, {CHOOSE i \in found : TRUE})

(* POST /login *)
LoginResult(c, raw, password) ==
    LET email == NormalizeEmail(raw)
        found == FindByEmail(email) IN
    IF found = {} \/ \A i \in found : ~check_password(users[i], password)
    THEN Refuse(c, Plain("login", c, 401, "Invalid email or password."))
    ELSE LET i == CHOOSE i \in found : TRUE IN
         IF users[i].email_verified_at = {}
         THEN Refuse(c, Plain("login", c, 403, "Email not verified."))
         ELSE Outcome(Plain("login", c, 302, ""), users, {i})

Login(c, raw, password) ==
    /\ Apply(c, LoginResult(c, raw, password))
    /\ UNCHANGED <<now, smtpConfigured, showDevLinks, spc, sargs, apiVars, pathVars>>

\* logout without session.clear()
LogoutResultKeepsSession(c) == Outcome(Plain("logout", c, 302, ""), users, session[c])

(* GET /logout *)
LogoutResult(c) == Outcome(Plain("logout", c, 302, ""), users, {})

Logout(c) ==
    /\ Apply(c, LogoutResult(c))
    /\ UNCHANGED <<now, smtpConfigured, showDevLinks, spc, sargs, apiVars, pathVars>>

\* verify_email binding the session without storing the timestamp
VerifyResultUnstamped(c, token) ==
    LET d == DecodeToken(token, "verify") IN
    IF d.exc # ""
    THEN IF Caught(d.exc)
         THEN Refuse(c, Plain("verify", c, 400, "Invalid or expired verification link."))
         ELSE Refuse(c, Plain("verify", c, 500, d.exc))
    ELSE IF ~UserExists(d.n)
    THEN Refuse(c, Plain("verify", c, 404, "Account not found."))
    ELSE Outcome(Plain("verify", c, 200, "Email verified!"), users, {d.n})

\* verify_email without its test of the timestamp already set
VerifyResultRestamps(c, token) ==
    LET d == DecodeToken(token, "verify") IN
    IF d.exc # ""
    THEN IF Caught(d.exc)
         THEN Refuse(c, Plain("verify", c, 400, "Invalid or expired verification link."))
         ELSE Refuse(c, Plain("verify", c, 500, d.exc))
    ELSE IF ~UserExists(d.n)
    THEN Refuse(c, Plain("verify", c, 404, "Account not found."))
    ELSE Outcome(Plain("verify", c, 200, "Email verified!"),
                 [users EXCEPT ![d.n].email_verified_at = {now}],
                 {d.n})

(* GET /verify *)
VerifyResult(c, token) ==
    LET d == DecodeToken(token, "verify") IN
    IF d.exc # ""
    THEN IF Caught(d.exc)
         THEN Refuse(c, Plain("verify", c, 400, "Invalid or expired verification link."))
         ELSE Refuse(c, Plain("verify", c, 500, d.exc))
    ELSE IF ~UserExists(d.n)
    THEN Refuse(c, Plain("verify", c, 404, "Account not found."))
    ELSE Outcome(Plain("verify", c, 200, "Email verified!"),
                 IF users[d.n].email_verified_at = {}
                 THEN [users EXCEPT ![d.n].email_verified_at = {now}]
                 ELSE users,
                 {d.n})

VerifyEmail(c, token) ==
    /\ Apply(c, VerifyResult(c, token))
    /\ UNCHANGED <<now, smtpConfigured, showDevLinks, spc, sargs, apiVars, pathVars>>

(* GET /verify/resend *)
\* request.args.get("email") or (g.user.email if g.user else "")
ResendEmail(c, rawq) ==
    IF rawq # <<>> THEN rawq
    ELSE IF CurrentUser(c) # {} THEN users[CHOOSE i \in CurrentUser(c) : TRUE].email
    ELSE <<>>

\* resend_verification without its already-verified return
ResendResultAlways(c, rawq, smtpOk) ==
    LET email == NormalizeEmail(ResendEmail(c, rawq))
        found == FindByEmail(email) IN
    IF email = <<>> THEN Refuse(c, Plain("resend", c, 400, "No email provided."))
    ELSE IF found = {} THEN Refuse(c, Plain("resend", c, 404, "Account not found."))
    ELSE LET i == CHOOSE i \in found : TRUE IN
         Refuse(c, Mailed("resend", c, "Verification link sent.",
                          Sign(i, "verify"), users[i].email, smtpOk))

ResendResult(c, rawq, smtpOk) ==
    LET email == NormalizeEmail(ResendEmail(c, rawq))
        found == FindByEmail(email) IN
    IF email = <<>> THEN Refuse(c, Plain("resend", c, 400, "No email provided."))
    ELSE IF found = {} THEN Refuse(c, Plain("resend", c, 404, "Account not found."))
    ELSE LET i == CHOOSE i \in found : TRUE IN
         IF users[i].email_verified_at # {}
         THEN Refuse(c, Plain("resend", c, 200, "Email already verified."))
         ELSE Refuse(c, Mailed("resend", c, "Verification link sent.",
                               Sign(i, "verify"), users[i].email, smtpOk))

ResendVerification(c, rawq, smtpOk) ==
    /\ Apply(c, ResendResult(c, rawq, smtpOk))
    /\ UNCHANGED <<now, smtpConfigured, showDevLinks, spc, sargs, apiVars, pathVars>>

(* POST /password/forgot *)
INFO_MSG == "If that email exists, we sent a reset link."

\* The response of forgot_password for a submitted email, as a function of
\* the users table it is looked up in
ForgotResponse(table, c, raw, smtpOk) ==
    LET email == NormalizeEmail(raw)
        found == { i \in DOMAIN table : table[i].email = email } IN
    IF email = <<>> THEN Plain("forgot", c, 200, INFO_MSG)
    ELSE IF found # {}
    THEN LET i == CHOOSE i \in found : TRUE IN
         Mailed("forgot", c, INFO_MSG, Sign(i, "reset"), table[i].email, smtpOk)
    ELSE Plain("forgot", c, 200, INFO_MSG)

ForgotResult(c, raw, smtpOk) == Refuse(c, ForgotResponse(users, c, raw, smtpOk))

ForgotPassword(c, raw, smtpOk) ==
    /\ Apply(c, ForgotResult(c, raw, smtpOk))
    /\ UNCHANGED <<now, smtpConfigured, showDevLinks, spc, sargs, apiVars, pathVars>>

\* reset_password without its test of the token's op
ResetResultAnyOp(c, token, new_pw) ==
    LET d == DecodeToken(token, token.op) IN
    IF Len(new_pw) < MIN_PASSWORD_LEN
    THEN Refuse(c, Plain("reset", c, 400, "Password must be at least 8 characters."))
    ELSE IF d.exc # ""
    THEN IF Caught(d.exc)
         THEN Refuse(c, Plain("reset", c, 400, "Invalid or expired reset link."))
         ELSE Refuse(c, Plain("reset", c, 500, d.exc))
    ELSE IF ~UserExists(d.n)
    THEN Refuse(c, Plain("reset", c, 404, "Account not found."))
    ELSE Outcome(Plain("reset", c, 302, ""),
                 [users EXCEPT ![d.n].password_hash = PasswordHash(new_pw)],
                 {d.n})

\* reset_password taking a completed reset as proof of the address
ResetResultVerifies(c, token, new_pw) ==
    LET d == DecodeToken(token, "reset") IN
    IF Len(new_pw) < MIN_PASSWORD_LEN
    THEN Refuse(c, Plain("reset", c, 400, "Password must be at least 8 characters."))
    ELSE IF d.exc # ""
    THEN IF Caught(d.exc)
         THEN Refuse(c, Plain("reset", c, 400, "Invalid or expired reset link."))
         ELSE Refuse(c, Plain("reset", c, 500, d.exc))
    ELSE IF ~UserExists(d.n)
    THEN Refuse(c, Plain("reset", c, 404, "Account not found."))
    ELSE Outcome(Plain("reset", c, 302, ""),
                 [users EXCEPT ![d.n].password_hash = PasswordHash(new_pw),
                               ![d.n].email_verified_at = {now}],
                 {d.n})

(* POST /password/reset *)
ResetResult(c, token, new_pw) ==
    LET d == DecodeToken(token, "reset") IN
    IF Len(new_pw) < MIN_PASSWORD_LEN
    THEN Refuse(c, Plain("reset", c, 400, "Password must be at least 8 characters."))
    ELSE IF d.exc # ""
    THEN IF Caught(d.exc)
         THEN Refuse(c, Plain("reset", c, 400, "Invalid or expired reset link."))
         ELSE Refuse(c, Plain("reset", c, 500, d.exc))
    ELSE IF ~UserExists(d.n)
    THEN Refuse(c, Plain("reset", c, 404, "Account not found."))
    ELSE Outcome(Plain("reset", c, 302, ""),
                 [users EXCEPT ![d.n].password_hash = PasswordHash(new_pw)],
                 {d.n})

ResetPassword(c, token, new_pw) ==
    /\ Apply(c, ResetResult(c, token, new_pw))
    /\ UNCHANGED <<now, smtpConfigured, showDevLinks, spc, sargs, apiVars, pathVars>>

(* GET /api/me *)
MeResult(c) ==
    IF CurrentUser(c) = {}
    THEN Refuse(c, Response("me", c, 200, "", {}, {}, {}, {[authenticated |-> FALSE]}))
    ELSE LET u == users[CHOOSE i \in CurrentUser(c) : TRUE] IN
         Refuse(c, Response("me", c, 200, "", {}, {}, {},
                            {[ authenticated |-> TRUE, email |-> u.email,
                               created_at |-> u.created_at,
                               email_verified |-> u.email_verified_at # {} ]}))

ApiMe(c) ==
    /\ Apply(c, MeResult(c))
    /\ UNCHANGED <<now, smtpConfigured, showDevLinks, spc, sargs, apiVars, pathVars>>

(* Time passes between requests *)
Tick ==
    /\ now + TickStep <= MaxNow
    /\ now' = now + TickStep
    /\ UNCHANGED <<authVars, apiVars, pathVars>>

----------------------------------------------------------------------------
(* Stepwise signup: the handler runs in a thread of its own, and another   *)
(* request can run between its lookup (line 412) and its commit (417).     *)

SignupCheck(c, raw, password) ==
    LET email == NormalizeEmail(raw)
        err == SignupError(email, password) IN
    /\ spc[c] = "idle"
    /\ IF err # ""
       THEN /\ resp' = Plain("signup", c, 400, err)
            /\ UNCHANGED <<spc, sargs>>
       ELSE /\ spc' = [spc EXCEPT ![c] = "checked"]
            /\ sargs' = [sargs EXCEPT ![c] = [email |-> email, password |-> password]]
            /\ UNCHANGED resp
    /\ UNCHANGED <<users, session, now, smtpConfigured, showDevLinks, apiVars, pathVars>>

SignupCommit(c, smtpOk) ==
    /\ spc[c] = "checked"
    /\ Len(SignupCommitResult(c, sargs[c].email, sargs[c].password, smtpOk).users) <= MaxUsers
    /\ Apply(c, SignupCommitResult(c, sargs[c].email, sargs[c].password, smtpOk))
    /\ spc' = [spc EXCEPT ![c] = "idle"]
    /\ UNCHANGED <<sargs, now, smtpConfigured, showDevLinks, apiVars, pathVars>>

----------------------------------------------------------------------------
(* The books API: canonical books, localized names, upstream fetches *)

BOOK_SLUGS ==
    << "1-ne", "2-ne", "jacob", "enos", "jarom", "omni",
       "w-of-m", "mosiah", "alma", "hel", "3-ne", "4-ne", "morm", "ether", "moro" >>

BOOK_CHAPTERS ==
    [ slug \in {BOOK_SLUGS[i] : i \in DOMAIN BOOK_SLUGS} |->
        CASE slug = "1-ne" -> 22 [] slug = "2-ne" -> 33 [] slug = "jacob" -> 7
          [] slug = "enos" -> 1 [] slug = "jarom" -> 1 [] slug = "omni" -> 1
          [] slug = "w-of-m" -> 1 [] slug = "mosiah" -> 29 [] slug = "alma" -> 63
          [] slug = "hel" -> 16 [] slug = "3-ne" -> 30 [] slug = "4-ne" -> 1
          [] slug = "morm" -> 9 [] slug = "ether" -> 15 [] slug = "moro" -> 10 ]

\* slug.upper()
Upper(slug) ==
    CASE slug = "1-ne" -> "1-NE" [] slug = "2-ne" -> "2-NE" [] slug = "jacob" -> "JACOB"
      [] slug = "enos" -> "ENOS" [] slug = "jarom" -> "JAROM" [] slug = "omni" -> "OMNI"
      [] slug = "w-of-m" -> "W-OF-M" [] slug = "mosiah" -> "MOSIAH" [] slug = "alma" -> "ALMA"
      [] slug = "hel" -> "HEL" [] slug = "3-ne" -> "3-NE" [] slug = "4-ne" -> "4-NE"
      [] slug = "morm" -> "MORM" [] slug = "ether" -> "ETHER" [] slug = "moro" -> "MORO"

_CACHE_TTL == 60 * 60 * 24

\* Language codes as a request gives them, and as they key the cache
POR == <<"p", "o", "r">>
DEU == <<"d", "e", "u">>
XX == <<"x", "x">>

\* request.args.get('lang', 'por'): <<>> stands for no lang parameter
RawLangs == { <<>>, POR, <<" ", "P", "O", "R">>, DEU, XX }

\* request.args.get('lang', 'por').lower().strip()
BooksLang(raw) == IF raw = <<>> THEN POR ELSE Strip(Lower(raw))

CacheKeys == { BooksLang(raw) : raw \in RawLangs }

\* booksnames.json as loaded at start: a full map for one language, a map
\* with two entries for another, none for the rest
BOOKS_NAMES ==
    (POR :> [slug \in {BOOK_SLUGS[i] : i \in DOMAIN BOOK_SLUGS} |-> "por " \o slug])
    @@ (DEU :> [slug \in {"1-ne", "alma"} |-> "deu " \o slug])

\* BOOKS_NAMES.get(lang, {})
NamesFor(lang) == IF lang \in DOMAIN BOOKS_NAMES THEN BOOKS_NAMES[lang] ELSE <<>>

\* A default that leaves the slug as it is
NameOrSlug(names, slug) == IF slug \in DOMAIN names THEN names[slug] ELSE slug

\* names.get(slug, slug.upper())
NameOrUpper(names, slug) == IF slug \in DOMAIN names THEN names[slug] ELSE Upper(slug)

\* What one GET of the upstream site comes to: a page, an error status the
\* retry policy does not retry (404, or another such as 403), or an exception
\* of requests (connection error, timeout, retries exhausted on 5xx/429)
FetchFailures == {"ConnectionError", "Timeout", "RetryError"}
FetchOutcomes == {"ok", "404", "403"} \cup FetchFailures

\* What resp.raise_for_status() raises after a GET that returned
RaiseForStatus(outcome) == IF outcome \in {"404", "403"} THEN "HTTPError" ELSE ""

\* The exception a GET followed by raise_for_status ends with, "" for none
GetRaises(outcome) == IF outcome \in FetchFailures THEN outcome ELSE RaiseForStatus(outcome)

\* _fetch_book_title without its 404 return
FetchBookTitleRaising(slug, outcome) ==
    IF outcome \in FetchFailures THEN [exc |-> outcome, title |-> ""]
    ELSE IF RaiseForStatus(outcome) # "" THEN [exc |-> RaiseForStatus(outcome), title |-> ""]
    ELSE [exc |-> "", title |-> "title " \o slug]

\* _fetch_book_title: the title, or the exception raised
FetchBookTitle(slug, outcome) ==
    IF outcome \in FetchFailures THEN [exc |-> outcome, title |-> ""]
    ELSE IF outcome = "404" THEN [exc |-> "", title |-> "<NOT AVAILABLE>"]
    ELSE IF RaiseForStatus(outcome) # "" THEN [exc |-> RaiseForStatus(outcome), title |-> ""]
    ELSE [exc |-> "", title |-> "title " \o slug]

Book(slug, name) == [abbr |-> slug, name |-> name, chapters |-> BOOK_CHAPTERS[slug]]

\* The upstream as one lookup meets it: the outcome of the GET for each book
AllOf(outcome) == [i \in DOMAIN BOOK_SLUGS |-> outcome]
FirstThen(first, k, rest) == [i \in DOMAIN BOOK_SLUGS |-> IF i = k THEN first ELSE rest]

\* Every kind of failure at the first book, and one part-way and at the last
FetchScenarios ==
    {AllOf("ok"), AllOf("404"), FirstThen("404", 1, "ok")}
    \cup { FirstThen(f, 1, "ok") : f \in FetchFailures \cup {"403"} }
    \cup { FirstThen("Timeout", k, "ok") : k \in {PartWay, Len(BOOK_SLUGS)} }
    \cup { FirstThen("403", PartWay, "404") }

\* The index of the first book whose fetch raises, 0 when none does
FirstRaise(scen) ==
    LET bad == { i \in DOMAIN scen : FetchBookTitle(BOOK_SLUGS[i], scen[i]).exc # "" } IN
    IF bad = {} THEN 0 ELSE CHOOSE i \in bad : \A j \in bad : i <= j

\* A TTL comparison that still takes an entry of exactly the TTL's age
FreshInclusive(lang, t) == { hit \in cache[lang] : t - hit.at <= _CACHE_TTL }

\* Lines 213-217: the entry a lookup at time t returns without rebuilding
Fresh(lang, t) == { hit \in cache[lang] : t - hit.at < _CACHE_TTL }

\* What the lookup of line 215 met: no entry, one too old, or a fresh one
Found(lang, t) ==
    IF cache[lang] = {} THEN "absent" ELSE IF Fresh(lang, t) = {} THEN "stale" ELSE "fresh"

\* Lines 219-241: the list built for a language, the exception the build
\* ends with, the upstream GETs it made and whether it read BOOKS_NAMES
BuildBooks(lang, scen) ==
    LET names == NamesFor(lang) IN
    IF names # <<>>
    THEN [ exc |-> "", fetches |-> 0, lookups |-> 1,
           out |-> [i \in DOMAIN BOOK_SLUGS |->
                      Book(BOOK_SLUGS[i], NameOrUpper(names, BOOK_SLUGS[i]))] ]
    ELSE IF FirstRaise(scen) # 0
    THEN [ exc |-> FetchBookTitle(BOOK_SLUGS[FirstRaise(scen)], scen[FirstRaise(scen)]).exc,
           fetches |-> FirstRaise(scen), lookups |-> 1, out |-> <<>> ]
    ELSE [ exc |-> "", fetches |-> Len(BOOK_SLUGS), lookups |-> 1,
           out |-> [i \in DOMAIN BOOK_SLUGS |->
                      Book(BOOK_SLUGS[i], FetchBookTitle(BOOK_SLUGS[i], scen[i]).title)] ]

\* A store that keeps an entry stamped later than the one at hand
CacheStoreKeepNewer(lang, t, out) ==
    IF \E hit \in cache[lang] : hit.at > t THEN cache
    ELSE [cache EXCEPT ![lang] = {[at |-> t, data |-> out]}]

\* _BOOKS_CACHE[lang] = {"at": now, "data": out}
CacheStore(lang, t, out) == [cache EXCEPT ![lang] = {[at |-> t, data |-> out]}]

\* A lookup that stores the books gathered before a fetch raised
GetBooksForLangStoresPartial(lang, t, scen) ==
    IF Fresh(lang, t) # {}
    THEN [ exc |-> "", data |-> (CHOOSE hit \in Fresh(lang, t) : TRUE).data,
           cache |-> cache, fetches |-> 0, lookups |-> 0 ]
    ELSE LET b == BuildBooks(lang, scen)
             partial == [i \in 1..(b.fetches - 1) |->
                           Book(BOOK_SLUGS[i], FetchBookTitle(BOOK_SLUGS[i], scen[i]).title)] IN
         IF b.exc # ""
         THEN [ exc |-> b.exc, data |-> <<>>, cache |-> CacheStore(lang, t, partial),
                fetches |-> b.fetches, lookups |-> b.lookups ]
         ELSE [ exc |-> "", data |-> b.out, cache |-> CacheStore(lang, t, b.out),
                fetches |-> b.fetches, lookups |-> b.lookups ]

\* _get_books_for_lang called at time t: what it returns or raises, the cache
\* it leaves, and the calls it made
GetBooksForLang(lang, t, scen) ==
    IF Fresh(lang, t) # {}
    THEN [ exc |-> "", data |-> (CHOOSE hit \in Fresh(lang, t) : TRUE).data,
           cache |-> cache, fetches |-> 0, lookups |-> 0 ]
    ELSE LET b == BuildBooks(lang, scen) IN
         IF b.exc # ""
         THEN [ exc |-> b.exc, data |-> <<>>, cache |-> cache,
                fetches |-> b.fetches, lookups |-> b.lookups ]
         ELSE [ exc |-> "", data |-> b.out, cache |-> CacheStore(lang, t, b.out),
                fetches |-> b.fetches, lookups |-> b.lookups ]

\* An /api/ response: status and JSON body, with the upstream GETs and the
\* BOOKS_NAMES reads the request made
ApiResponse(ep, lang, status, body, fetches, lookups) ==
    [ ep |-> ep, lang |-> lang, status |-> status, body |-> body,
      fetches |-> fetches, lookups |-> lookups, found |-> "" ]

ErrorBody(exc) == [error |-> exc]

(* GET /api/books *)
BooksResponse(lang, g) ==
    IF g.exc # ""
    THEN ApiResponse("books", lang, 500, ErrorBody(g.exc), g.fetches, g.lookups)
    ELSE ApiResponse("books", lang, 200, [lang |-> lang, books |-> g.data],
                     g.fetches, g.lookups)

\* The response, with what the lookup met in the cache
BooksAnswer(lang, t, g) == [BooksResponse(lang, g) EXCEPT !.found = Found(lang, t)]

ApiBooks(raw, scen) ==
    LET lang == BooksLang(raw)
        g == GetBooksForLang(lang, now, scen) IN
    /\ cache' = g.cache
    /\ apiResp' = BooksAnswer(lang, now, g)
    /\ UNCHANGED <<tpc, tloc, now, authVars, pathVars>>

(* GET /api/chapter *)
\* request.args.get('book'), request.args.get('chapter'): "" when absent
ChapterBooks == {"", "1-ne"}
ChapterNumbers == {"", "1"}

ChapterResponse(book, chapter, lang, outcome) ==
    IF book = "" \/ chapter = ""
    THEN ApiResponse("chapter", lang, 400,
                     ErrorBody("Missing 'book' or 'chapter' parameter"), 0, 0)
    ELSE IF GetRaises(outcome) # ""
    THEN ApiResponse("chapter", lang, 502, ErrorBody(GetRaises(outcome)), 1, 0)
    ELSE ApiResponse("chapter", lang, 200,
                     [verses |-> "verses", book |-> book, chapter |-> chapter], 1, 0)

ApiChapter(book, chapter, lang, outcome) ==
    /\ apiResp' = ChapterResponse(book, chapter, lang, outcome)
    /\ UNCHANGED <<cache, tpc, tloc, now, authVars, pathVars>>

(* GET /api/intro *)
NE1 == <<"1", "-", "n", "e">>

\* request.args.get("book", ""), and request.args.get("chapter", type=int):
\* {} when absent or no integer
IntroBooks == { <<>>, NE1, <<" ", "1", "-", "N", "E">>, <<"a">> }
IntroChapters == { {}, {1}, {2} }

\* How the page holds the chapter: in itself, in an iframe's srcdoc, or in a
\* second document an iframe's src points at
PageKinds == {"plain", "srcdoc", "iframe"}

EmptyIntro == [subtitle |-> "", introduction |-> ""]

\* fetch_1ne1_extras: the dict, or the exception raised, and the GETs made
Fetch1Ne1Extras(kind, outcome1, outcome2, texts) ==
    IF GetRaises(outcome1) # ""
    THEN [exc |-> GetRaises(outcome1), data |-> EmptyIntro, fetches |-> 1]
    ELSE IF kind = "iframe" /\ GetRaises(outcome2) # ""
    THEN [exc |-> GetRaises(outcome2), data |-> EmptyIntro, fetches |-> 2]
    ELSE [exc |-> "", data |-> texts, fetches |-> IF kind = "iframe" THEN 2 ELSE 1]

IntroTexts == { EmptyIntro, [subtitle |-> "subtitle", introduction |-> "introduction"] }

IntroResponse(rawBook, chapter, lang, kind, outcome1, outcome2, texts) ==
    IF Lower(Strip(rawBook)) # NE1 \/ chapter # {1}
    THEN ApiResponse("intro", lang, 200, EmptyIntro, 0, 0)
    ELSE LET f == Fetch1Ne1Extras(kind, outcome1, outcome2, texts) IN
         IF f.exc # ""
         THEN ApiResponse("intro", lang, 200, EmptyIntro, f.fetches, 0)
         ELSE ApiResponse("intro", lang, 200, f.data, f.fetches, 0)

\* The upstream as one /api/intro request meets it: the page's kind, the
\* outcome of the GET of the page and of the GET of the iframe's document
\* (made for the "iframe" kind alone), and the two texts in the document
IntroPage(kind, outcome1, outcome2, texts) ==
    [kind |-> kind, outcome1 |-> outcome1, outcome2 |-> outcome2, texts |-> texts]

IntroPages ==
    { IntroPage(kind, o1, "ok", texts) :
        kind \in PageKinds, o1 \in FetchOutcomes \ {"ok"}, texts \in {EmptyIntro} }
    \cup { IntroPage("iframe", "ok", o2, EmptyIntro) : o2 \in FetchOutcomes \ {"ok"} }
    \cup { IntroPage(kind, "ok", "ok", texts) : kind \in PageKinds, texts \in IntroTexts }

\* The page of a request that fetches none
NoPage == IntroPage("plain", "ok", "ok", EmptyIntro)

ApiIntro(rawBook, chapter, lang, page) ==
    /\ apiResp' = IntroResponse(rawBook, chapter, lang, page.kind,
                                page.outcome1, page.outcome2, page.texts)
    /\ UNCHANGED <<cache, tpc, tloc, now, authVars, pathVars>>

(* Time passes between API requests *)
ApiTick ==
    /\ now + ApiTickStep <= MaxApiNow
    /\ now' = now + ApiTickStep
    /\ UNCHANGED <<apiVars, authVars, pathVars>>

(* /api/books in two steps, for requests served by threads at once: the   *)
(* freshness check of lines 214-217, then the build and the store of      *)
(* lines 219-241.  The build reads and writes only its locals.            *)

RaceLangs == {POR, XX}

RaceScenarios == {AllOf("ok"), FirstThen("404", 1, "ok"), FirstThen("Timeout", PartWay, "ok")}

BooksBegin(t, raw) ==
    LET lang == BooksLang(raw) IN
    /\ tpc[t] = "idle"
    /\ tloc' = [tloc EXCEPT ![t] = [lang |-> lang, now |-> now, wrote |-> FALSE]]
    /\ IF Fresh(lang, now) # {}
       THEN /\ apiResp' = BooksAnswer(lang, now, GetBooksForLang(lang, now, AllOf("ok")))
            /\ UNCHANGED tpc
       ELSE /\ tpc' = [tpc EXCEPT ![t] = "building"]
            /\ UNCHANGED apiResp
    /\ UNCHANGED <<cache, now, authVars, pathVars>>

BooksFinish(t, scen) ==
    LET lang == tloc[t].lang
        b == BuildBooks(lang, scen) IN
    /\ tpc[t] = "building"
    /\ tpc' = [tpc EXCEPT ![t] = "idle"]
    /\ IF b.exc # ""
       THEN /\ apiResp' = ApiResponse("books", lang, 500, ErrorBody(b.exc), b.fetches, b.lookups)
            /\ UNCHANGED <<cache, tloc>>
       ELSE /\ cache' = CacheStore(lang, tloc[t].now, b.out)
            /\ tloc' = [tloc EXCEPT ![t].wrote = TRUE]
            /\ apiResp' = ApiResponse("books", lang, 200, [lang |-> lang, books |-> b.out],
                                      b.fetches, b.lookups)
    /\ UNCHANGED <<now, authVars, pathVars>>

NextCacheRace ==
    \/ \E t \in Threads, raw \in RaceLangs : BooksBegin(t, raw)
    \/ \E t \in Threads, scen \in RaceScenarios : BooksFinish(t, scen)
    \/ ApiTick

InitApi ==
    /\ cache = [lang \in CacheKeys |-> {}]
    /\ apiResp = ApiResponse("none", <<>>, 0, <<>>, 0, 0)
    /\ tpc = [t \in Threads |-> "idle"]
    /\ tloc = [t \in Threads |-> [lang |-> <<>>, now |-> 0, wrote |-> FALSE]]
    /\ now = ApiTickStep

InitAuthIdle ==
    /\ users = <<>>
    /\ session = [c \in Clients |-> {}]
    /\ resp = NoResponse
    /\ smtpConfigured = FALSE
    /\ showDevLinks = FALSE
    /\ spc = [c \in Clients |-> "idle"]
    /\ sargs = [c \in Clients |-> [email |-> <<>>, password |-> ""]]

NextApi ==
    \/ \E raw \in RawLangs, scen \in FetchScenarios : ApiBooks(raw, scen)
    \/ \E book \in ChapterBooks, chapter \in ChapterNumbers, outcome \in FetchOutcomes :
         ApiChapter(book, chapter, XX, outcome)
    \/ \E rawBook \in IntroBooks, chapter \in IntroChapters, page \in IntroPages :
         /\ (Lower(Strip(rawBook)) # NE1 \/ chapter # {1}) => page = NoPage
         /\ ApiIntro(rawBook, chapter, XX, page)
    \/ ApiTick

----------------------------------------------------------------------------
(* The corpus writer (tools/fetchBooksWebsite.py).  A path is a sequence   *)
(* of tokens: single characters, and the names "all_books", "project" and  *)
(* ".json" that the script itself supplies.                                *)

PathChars == {"a", ".", "/", "\\"}

RECURSIVE SeqsUpTo(_, _)
SeqsUpTo(S, n) ==
    IF n = 0 THEN {<<>>}
    ELSE SeqsUpTo(S, n - 1) \cup { Append(q, x) : q \in {r \in SeqsUpTo(S, n - 1) : Len(r) = n - 1}, x \in S }

\* lang_obj.get('code'), for every entry languages.json can hold
LangCodes == SeqsUpTo(PathChars, MaxCodeLen)

\* The separators of os.path on the platform
Seps(plat) == IF plat = "nt" THEN {"/", "\\"} ELSE {"/"}

\* output_dir = os.path.join(project_root, 'all_books')
OUTPUT_DIR == <<"/", "project", "/", "all_books">>

\* filename = f'{lang_code}.json'
FileName(code) == code \o <<".json">>

\* os.path.join(a, b): b alone when it is absolute, else a, a separator, b
PathJoin(plat, a, b) ==
    IF b # <<>> /\ Head(b) \in Seps(plat) THEN b
    ELSE IF a # <<>> /\ a[Len(a)] \in Seps(plat) THEN a \o b
    ELSE a \o <<"/">> \o b

\* full_path = os.path.join(output_dir, filename)
FullPath(plat, code) == PathJoin(plat, OUTPUT_DIR, FileName(code))

\* The components of a path: the runs of tokens between separators
RECURSIVE Components(_, _, _)
Components(plat, path, cur) ==
    IF path = <<>> THEN <<cur>>
    ELSE IF Head(path) \in Seps(plat) THEN <<cur>> \o Components(plat, Tail(path), <<>>)
    ELSE Components(plat, Tail(path), Append(cur, Head(path)))

\* The directory entries open() walks: "" and "." stay, ".." goes up
RECURSIVE Walk(_, _)
Walk(comps, at) ==
    IF comps = <<>> THEN at
    ELSE IF Head(comps) \in {<<>>, <<".">>} THEN Walk(Tail(comps), at)
    ELSE IF Head(comps) = <<".", ".">>
    THEN Walk(Tail(comps), IF at = <<>> THEN at ELSE SubSeq(at, 1, Len(at) - 1))
    ELSE Walk(Tail(comps), Append(at, Head(comps)))

\* The file open(full_path, 'w') creates, as the entries from the root
Resolve(plat, path) == Walk(Components(plat, path, <<>>), <<>>)

\* process_language, lines 110-120 and 150-151: the path it writes to
ProcessLanguage ==
    /\ full_path = {}
    /\ full_path' = {FullPath(platform, lang_code)}
    /\ UNCHANGED <<platform, lang_code, now, authVars, apiVars>>

\* main(), lines 173-177: on to the next entry of languages.json
NextEntry ==
    /\ full_path # {}
    /\ \E code \in LangCodes : lang_code' = code
    /\ full_path' = {}
    /\ UNCHANGED <<platform, now, authVars, apiVars>>

InitPath ==
    /\ platform \in {"posix", "nt"}
    /\ lang_code \in LangCodes
    /\ full_path = {}
    /\ now = 0

NextPath == ProcessLanguage \/ NextEntry

----------------------------------------------------------------------------
(* The state of the other components while a specification leaves them be *)

InitApiIdle ==
    /\ cache = <<>>
    /\ apiResp = <<>>
    /\ tpc = <<>>
    /\ tloc = <<>>

InitPathIdle ==
    /\ platform = "posix"
    /\ lang_code = <<>>
    /\ full_path = {}

----------------------------------------------------------------------------
(* The account system *)

InitAuth ==
    /\ users = <<>>
    /\ session = [c \in Clients |-> {}]
    /\ resp = NoResponse
    /\ smtpConfigured \in BOOLEAN
    /\ showDevLinks \in BOOLEAN
    /\ spc = [c \in Clients |-> "idle"]
    /\ sargs = [c \in Clients |-> [email |-> <<>>, password |-> ""]]

Init ==
    /\ InitAuth
    /\ now = 0
    /\ InitApiIdle
    /\ InitPathIdle

Next ==
    \/ \E c \in Callers, raw \in RawEmails, pw \in SignupPasswords, ok \in SmtpOutcomes :
         Signup(c, raw, pw, ok)
    \/ \E c \in Callers, raw \in RawEmails, pw \in LoginPasswords : Login(c, raw, pw)
    \/ \E c \in Callers : Logout(c)
    \/ \E c \in Callers, t \in TokenInputs : VerifyEmail(c, t)
    \/ \E c \in Callers, raw \in RawEmails, ok \in SmtpOutcomes : ResendVerification(c, raw, ok)
    \/ \E c \in Callers, raw \in RawEmails, ok \in SmtpOutcomes : ForgotPassword(c, raw, ok)
    \/ \E c \in Callers, t \in TokenInputs, pw \in ResetPasswords : ResetPassword(c, t, pw)
    \/ \E c \in Callers : ApiMe(c)
    \/ Tick

Spec == Init /\ [][Next]_vars

(* Signup requests only, each in two steps *)
NextSignupRace ==
    \/ \E c \in Clients, raw \in RawEmails, pw \in SignupPasswords : SignupCheck(c, raw, pw)
    \/ \E c \in Clients, ok \in SmtpOutcomes : SignupCommit(c, ok)
    \/ \E c \in Clients : Logout(c)
    \/ Tick

SpecSignupRace == Init /\ [][NextSignupRace]_vars

----------------------------------------------------------------------------
(* Properties of the account system *)

\* What the client sees of a response
Visible(r) == [status |-> r.status, msg |-> r.msg, dev_link |-> r.dev_link, me |-> r.me]

\* The users table without the rows of an email
WithoutEmail(table, email) == SelectSeq(table, LAMBDA row : row.email # email)

\* C1: the response to POST /password/forgot is the same (status, info
\* message, dev_link) whether or not a user with the submitted email exists,
\* in every configuration and for every outcome of the mail send.
C1_ForgotHidesExistence ==
    \A c \in Callers, raw \in RawEmails, ok \in SmtpOutcomes :
        Visible(ForgotResponse(users, c, raw, ok))
            = Visible(ForgotResponse(WithoutEmail(users, NormalizeEmail(raw)), c, raw, ok))

\* The tokens C2 speaks of: malformed, not signed with the server key, older
\* than SECURITY_TOKEN_MAX_AGE, of another op than the endpoint's, or without
\* a uid that is an integer or the decimal digits of one
InvalidToken(t, wantOp) ==
    \/ t.kind # "signed"
    \/ t.key # "server"
    \/ now - t.iat > SECURITY_TOKEN_MAX_AGE
    \/ t.op # wantOp
    \/ t.uid.k \in {"missing", "null"}
    \/ t.uid.k = "str" /\ t.uid.s \notin {"1", "2"}

\* C2: GET /verify and POST /password/reset (password of 8 characters or
\* more) answer every invalid token with the same 400 response, whatever
\* makes it invalid, and leave the users table and the session as they were.
C2_InvalidTokensRejectedUniformly ==
    \A c \in Callers, t \in TokenInputs :
        /\ InvalidToken(t, "verify") =>
             VerifyResult(c, t)
                = Refuse(c, Plain("verify", c, 400, "Invalid or expired verification link."))
        /\ InvalidToken(t, "reset") =>
             \A pw \in {p \in ResetPasswords : Len(p) >= MIN_PASSWORD_LEN} :
                 ResetResult(c, t, pw)
                    = Refuse(c, Plain("reset", c, 400, "Invalid or expired reset link."))

\* C3: the users table never holds two rows with the same normalized email,
\* however signup requests interleave; and a signup that runs alone with an
\* email already registered returns 400 and creates no user.
C3_EmailsUnique ==
    /\ \A i, j \in UserIds :
         i # j => NormalizeEmail(users[i].email) # NormalizeEmail(users[j].email)
    /\ \A c \in Clients, raw \in RawEmails, pw \in SignupPasswords, ok \in SmtpOutcomes :
         FindByEmail(NormalizeEmail(raw)) # {} =>
             /\ SignupResult(c, raw, pw, ok).resp.status = 400
             /\ SignupResult(c, raw, pw, ok).users = users

\* Two signups with one email both passed the lookup, and the second commit
\* was refused by the unique index
C3_Witness ==
    /\ resp.ep = "signup" /\ resp.status = 500
    /\ Len(users) = 1
    /\ \E c \in Clients : sargs[c].email = users[1].email /\ session[c] = {}

\* C4: a signup with an empty email, an empty password or a password under 8
\* characters returns 400, creates no user row, sends no verification mail
\* and leaves the caller's session unchanged.
C4_ShortPasswordSignupRefused ==
    \A c \in Callers, raw \in RawEmails, pw \in SignupPasswords, ok \in SmtpOutcomes :
        (NormalizeEmail(raw) = <<>> \/ pw = "" \/ Len(pw) < MIN_PASSWORD_LEN) =>
            LET o == SignupResult(c, raw, pw, ok) IN
            /\ o.resp.status = 400
            /\ o.users = users
            /\ o.resp.mail_to = {} /\ o.resp.signed = {}
            /\ o.session = session[c]

\* A signup was refused for its form while a user exists and the caller is
\* logged in
C4_Witness ==
    /\ resp.ep = "signup" /\ resp.status = 400
    /\ resp.msg = "Please provide a valid email and a password (min 8 chars)."
    /\ users # <<>>
    /\ session[resp.client] # {}

\* C5: for every user whose email_verified_at is set, GET /verify/resend
\* (email from the query or from the session user) answers 200 with a
\* success message, signs no token, calls no mail send and changes no user.
C5_ResendForVerifiedSendsNothing ==
    \A c \in Callers, rawq \in RawEmails, ok \in SmtpOutcomes :
        LET email == NormalizeEmail(ResendEmail(c, rawq)) IN
        (\E i \in UserIds : users[i].email = email /\ users[i].email_verified_at # {}) =>
            LET o == ResendResult(c, rawq, ok) IN
            /\ o.resp.status = 200
            /\ o.resp.msg = "Email already verified."
            /\ o.resp.signed = {} /\ o.resp.mail_to = {} /\ o.resp.dev_link = {}
            /\ o.users = users
            /\ o.session = session[c]

\* A resend for a verified account was answered, while another account is
\* still unverified
C5_Witness ==
    /\ resp.ep = "resend" /\ resp.msg = "Email already verified."
    /\ \E i \in UserIds : users[i].email_verified_at = {}

\* C8: no request deletes a user or changes a user's email or created_at;
\* only a successful signup adds a user, only verification changes
\* email_verified_at and only reset changes password_hash.
C8_UsersNeverDeleted ==
    [][ /\ UserIds \subseteq DOMAIN users'
        /\ (DOMAIN users' # UserIds =>
              /\ resp'.ep = "signup" /\ resp'.status = 200
              /\ DOMAIN users' = UserIds \cup {Len(users) + 1})
        /\ \A i \in UserIds :
              /\ users'[i].email = users[i].email
              /\ users'[i].created_at = users[i].created_at
              /\ (users'[i].email_verified_at # users[i].email_verified_at
                    => resp'.ep = "verify")
              /\ (users'[i].password_hash # users[i].password_hash
                    => resp'.ep = "reset")
      ]_vars

\* Two users exist, the first verified after signup and with a password set
\* by a reset
C8_Witness ==
    /\ Len(users) = 2
    /\ users[1].email_verified_at # {}
    /\ users[1].password_hash = PasswordHash("password2")
    /\ users[1].created_at = 0 /\ now > 0

InitApiAll == InitApi /\ InitAuthIdle /\ InitPathIdle

SpecApi == InitApiAll /\ [][NextApi]_vars

SpecCacheRace == InitApiAll /\ [][NextCacheRace]_vars

InitPathAll == InitPath /\ InitAuthIdle /\ InitApiIdle

SpecPath == InitPathAll /\ [][NextPath]_vars

----------------------------------------------------------------------------
(* Properties of the corpus writer and of the books API *)

\* C6: for every language code, the path the corpus writer builds from it
\* stays inside all_books/ and names a single file component there.
C6_PathStaysInOutputDir ==
    \A path \in full_path :
        LET dir == Resolve(platform, OUTPUT_DIR)
            file == Resolve(platform, path) IN
        /\ Len(file) = Len(dir) + 1
        /\ SubSeq(file, 1, Len(dir)) = dir

\* A GET that did not come to a page
Failed(outcome) == outcome # "ok"

\* The requests of /api/intro that fetch
IntroFetches(rawBook, chapter) == Lower(Strip(rawBook)) = NE1 /\ chapter = {1}

\* A lookup that goes to the upstream: no fresh entry and no precomputed names
BooksFetches(lang) == Fresh(lang, now) = {} /\ NamesFor(lang) = <<>>

\* What C7 says of /api/chapter and /api/intro: 502 with an error body, and
\* 200 with empty subtitle and introduction
ChapterAndIntroDegrade ==
    /\ \A book \in ChapterBooks \ {""}, chapter \in ChapterNumbers \ {""},
          outcome \in FetchOutcomes :
         Failed(outcome) =>
             LET r == ChapterResponse(book, chapter, XX, outcome) IN
             r.status = 502 /\ DOMAIN r.body = {"error"}
    /\ \A rawBook \in IntroBooks, chapter \in IntroChapters, page \in IntroPages :
         (/\ IntroFetches(rawBook, chapter)
          /\ Failed(page.outcome1) \/ (page.kind = "iframe" /\ Failed(page.outcome2))) =>
             LET r == IntroResponse(rawBook, chapter, XX, page.kind,
                                    page.outcome1, page.outcome2, page.texts) IN
             r.status = 200 /\ r.body = EmptyIntro

\* C7 as stated: when an upstream fetch fails (connection error, timeout,
\* retries exhausted or an error status), /api/chapter answers 502 with a
\* JSON error, /api/intro 200 with empty texts, and /api/books 500 with a
\* JSON error.
C7_FetchFailuresDegrade ==
    /\ ChapterAndIntroDegrade
    /\ \A lang \in CacheKeys, scen \in FetchScenarios :
         (BooksFetches(lang) /\ \E i \in DOMAIN scen : Failed(scen[i])) =>
             LET r == BooksResponse(lang, GetBooksForLang(lang, now, scen)) IN
             r.status = 500 /\ DOMAIN r.body = {"error"}

\* C7 as amended: as stated, but for /api/books a 404 of the upstream is no
\* failure of the request: the book is named "<NOT AVAILABLE>", and the
\* response is 200 when no fetch fails otherwise.
C7_FetchFailuresDegradeBut404 ==
    /\ ChapterAndIntroDegrade
    /\ \A lang \in CacheKeys, scen \in FetchScenarios :
         BooksFetches(lang) =>
             LET r == BooksResponse(lang, GetBooksForLang(lang, now, scen)) IN
             IF \E i \in DOMAIN scen : Failed(scen[i]) /\ scen[i] # "404"
             THEN r.status = 500 /\ DOMAIN r.body = {"error"}
             ELSE /\ r.status = 200
                  /\ \A i \in DOMAIN scen :
                       scen[i] = "404" <=> r.body.books[i].name = "<NOT AVAILABLE>"

\* /api/books answered 200 after a 404 of the upstream, and the entry it
\* stored holds the placeholder
C7_Witness ==
    /\ apiResp.ep = "books" /\ apiResp.status = 200 /\ apiResp.fetches = Len(BOOK_SLUGS)
    /\ apiResp.body.books[1].name = "<NOT AVAILABLE>"
    /\ apiResp.body.books[2].name = "title 2-ne"

\* What C9 says of a fresh entry and of the other languages: a lookup at a
\* time less than the TTL after the entry's stamp returns the entry's list
\* with no name lookup and no upstream fetch, and no lookup changes the entry
\* of another language
FreshEntriesServed ==
    \A lang \in CacheKeys, scen \in FetchScenarios :
        LET g == GetBooksForLang(lang, now, scen) IN
        /\ \A hit \in cache[lang] :
             now - hit.at < 86400 =>
                 /\ g.exc = "" /\ g.data = hit.data
                 /\ g.fetches = 0 /\ g.lookups = 0
                 /\ g.cache = cache
        /\ \A other \in CacheKeys \ {lang} : g.cache[other] = cache[other]

\* C9 as stated: a fresh entry is returned without rebuilding, a lookup at
\* now - t >= 86400 rebuilds the list and re-stamps the entry with now, and
\* a lookup for one language never changes the entry of another.
C9_TtlCache ==
    /\ FreshEntriesServed
    /\ \A lang \in CacheKeys, scen \in FetchScenarios :
         LET g == GetBooksForLang(lang, now, scen) IN
         \A hit \in cache[lang] :
             now - hit.at >= 86400 =>
                 /\ g.lookups = 1
                 /\ g.cache[lang] = {[at |-> now, data |-> BuildBooks(lang, scen).out]}

\* C9 as amended: the rebuild of an expired entry re-stamps it with now when
\* it completes; when a title fetch of the rebuild raises, the entry is left
\* as it was.
C9_TtlCacheUnlessFetchRaises ==
    /\ FreshEntriesServed
    /\ \A lang \in CacheKeys, scen \in FetchScenarios :
         LET g == GetBooksForLang(lang, now, scen) IN
         \A hit \in cache[lang] :
             now - hit.at >= 86400 =>
                 /\ g.lookups = 1
                 /\ g.exc = "" => /\ g.cache[lang] = {[at |-> now, data |-> g.data]}
                                  /\ Len(g.data) = Len(BOOK_SLUGS)
                 /\ g.exc # "" => g.cache = cache

\* A lookup met an expired entry, rebuilt the list from the upstream and
\* stamped the entry with the time of the lookup
C9_Witness ==
    /\ apiResp.ep = "books" /\ apiResp.found = "stale" /\ apiResp.status = 200
    /\ apiResp.fetches = Len(BOOK_SLUGS)
    /\ cache[apiResp.lang] = {[at |-> now, data |-> apiResp.body.books]}

\* C10: nothing keeps two requests for one language from both passing the
\* freshness check before either writes; each request that passed it builds
\* the list itself (with its own upstream fetches on the fallback path) and
\* stores it under the time of its own check, replacing whatever entry is
\* there by then.
C10_ConcurrentRefreshOverwrites ==
    [][ \A t \in Threads :
          (tpc[t] = "building" /\ tpc'[t] = "idle" /\ apiResp'.status = 200) =>
              /\ cache'[tloc[t].lang] = {[at |-> tloc[t].now, data |-> apiResp'.body.books]}
              /\ apiResp'.lookups = 1
              /\ NamesFor(tloc[t].lang) = <<>> => apiResp'.fetches = Len(BOOK_SLUGS)
      ]_vars

\* Two requests for one language both rebuilt and both wrote; the one that
\* checked first wrote last, so the entry carries the earlier stamp
C10_Witness ==
    /\ \A t \in Threads : tpc[t] = "idle" /\ tloc[t].wrote /\ tloc[t].lang = XX
    /\ tloc["t1"].now < tloc["t2"].now
    /\ tloc["t2"].now - tloc["t1"].now < _CACHE_TTL
    /\ \E hit \in cache[XX] : hit.at = tloc["t1"].now

\* C11: for every language code, a successful /api/books response lists the
\* 15 canonical slugs once each in BOOK_SLUGS order, each with its chapter
\* count of BOOK_CHAPTERS; when the language has a non-empty precomputed name
\* map, each name is the map's entry for the slug, or the upper-cased slug
\* when the map has none, and the request makes no upstream fetch.
C11_BooksListed ==
    \A raw \in RawLangs, scen \in FetchScenarios :
        LET lang == BooksLang(raw)
            r == BooksResponse(lang, GetBooksForLang(lang, now, scen)) IN
        r.status = 200 =>
            /\ r.body.lang = lang
            /\ Len(r.body.books) = 15
            /\ Cardinality({r.body.books[i].abbr : i \in 1..15}) = 15
            /\ \A i \in 1..15 :
                 /\ r.body.books[i].abbr = BOOK_SLUGS[i]
                 /\ r.body.books[i].chapters = BOOK_CHAPTERS[BOOK_SLUGS[i]]
            /\ (lang \in DOMAIN BOOKS_NAMES /\ BOOKS_NAMES[lang] # <<>>) =>
                 /\ r.fetches = 0
                 /\ \A i \in 1..15 :
                      r.body.books[i].name =
                          IF BOOK_SLUGS[i] \in DOMAIN BOOKS_NAMES[lang]
                          THEN BOOKS_NAMES[lang][BOOK_SLUGS[i]]
                          ELSE Upper(BOOK_SLUGS[i])

\* /api/books answered from the cache for a language whose name map has an
\* entry for the first book and none for the second
C11_Witness ==
    /\ apiResp.ep = "books" /\ apiResp.status = 200 /\ apiResp.lang = DEU
    /\ apiResp.found = "fresh" /\ apiResp.fetches = 0
    /\ apiResp.body.books[1].name = "deu 1-ne"
    /\ apiResp.body.books[2].name = "2-NE"

----------------------------------------------------------------------------
(* Properties of verification, reset, login and the session *)

\* A token the server key signed no more than SECURITY_TOKEN_MAX_AGE ago, of
\* the op wanted, whose uid is the integer i or its decimal digits
TokenFor(t, wantOp, i) ==
    /\ t.kind = "signed" /\ t.key = "server"
    /\ now - t.iat <= 3600
    /\ t.op = wantOp
    /\ \/ t.uid.k = "int" /\ t.uid.n = i
       \/ t.uid.k = "str" /\ t.uid.s = "1" /\ i = 1
       \/ t.uid.k = "str" /\ t.uid.s = "2" /\ i = 2

\* What C12 says of one GET /verify: with a valid token for an existing user
\* it sets that user's email_verified_at to now if it is unset and leaves it
\* as it is otherwise, binds the session to the user, and changes nothing
\* else of the users table
VerifySetsOnce ==
    \A c \in Callers, t \in TokenInputs, i \in UserIds :
        TokenFor(t, "verify", i) =>
            LET o == VerifyResult(c, t) IN
            /\ o.resp.status = 200
            /\ o.session = {i}
            /\ DOMAIN o.users = UserIds
            /\ o.users[i].email_verified_at =
                   IF users[i].email_verified_at = {} THEN {now}
                   ELSE users[i].email_verified_at
            /\ o.users[i].email = users[i].email
            /\ o.users[i].password_hash = users[i].password_hash
            /\ o.users[i].created_at = users[i].created_at
            /\ \A j \in UserIds \ {i} : o.users[j] = users[j]

\* What C12 says of every request: an email_verified_at that is set stays as
\* it is, and a verification changes no more than one row
VerifiedStaysVerified ==
    /\ \A i \in UserIds :
         users[i].email_verified_at # {} =>
             users'[i].email_verified_at = users[i].email_verified_at
    /\ resp'.ep = "verify" =>
         /\ DOMAIN users' = UserIds
         /\ Cardinality({i \in UserIds : users'[i] # users[i]}) <= 1

\* C12: GET /verify with a valid unexpired token of op 'verify' for an
\* existing user sets that user's email_verified_at if it is unset and binds
\* the session to that user; a second verification of the same user leaves
\* the timestamp unchanged; no request clears or changes an email_verified_at
\* that is set, and a verification touches no other user's row.
C12_VerificationSetOnce == [] VerifySetsOnce /\ [][VerifiedStaysVerified]_vars

\* The first user, verified at time 0, was verified again at a later time,
\* after the signup of a second user had taken the session: the timestamp is
\* still the first one and the second user's row is untouched
C12_Witness ==
    /\ resp.ep = "verify" /\ resp.status = 200
    /\ Len(users) = 2
    /\ users[2].created_at > 0 /\ users[2].email_verified_at = {}
    /\ users[1].email_verified_at = {0}
    /\ session[resp.client] = {1}

\* The integers a token's uid can name
UidNumbers == 1..MaxUsers

\* C13: POST /password/reset with a password of 8 characters or more and a
\* valid unexpired token of op 'reset' for an existing user replaces the
\* password hash of the user the token names and of no other, leaves that
\* user's email and email_verified_at and every other row as they were, and
\* binds the session to that user; a token of op 'verify' changes no
\* password; a validly signed token whose uid names no user is answered 404
\* and changes nothing.
C13_ResetChangesOnePassword ==
    \A c \in Callers, t \in TokenInputs, pw \in ResetPasswords :
        LET o == ResetResult(c, t, pw) IN
        /\ \A i \in UserIds :
             (Len(pw) >= 8 /\ TokenFor(t, "reset", i)) =>
                 /\ o.resp.status = 302
                 /\ o.session = {i}
                 /\ DOMAIN o.users = UserIds
                 /\ o.users[i].password_hash = PasswordHash(pw)
                 /\ o.users[i].email = users[i].email
                 /\ o.users[i].email_verified_at = users[i].email_verified_at
                 /\ o.users[i].created_at = users[i].created_at
                 /\ \A j \in UserIds \ {i} : o.users[j] = users[j]
        /\ t.op = "verify" =>
             /\ o.users = users
             /\ DOMAIN VerifyResult(c, t).users = UserIds
             /\ \A j \in UserIds :
                  VerifyResult(c, t).users[j].password_hash = users[j].password_hash
        /\ \A n \in UidNumbers \ UserIds :
             (Len(pw) >= 8 /\ TokenFor(t, "reset", n)) =>
                 /\ o.resp.status = 404
                 /\ o.users = users
                 /\ o.session = session[c]

\* A reset set the password of the first of two users, who is still
\* unverified, and took the session from the second
C13_Witness ==
    /\ resp.ep = "reset" /\ resp.status = 302
    /\ Len(users) = 2
    /\ users[1].password_hash = PasswordHash("password2")
    /\ users[1].email_verified_at = {}
    /\ users[2].password_hash = PasswordHash("longpass")
    /\ session[resp.client] = {1}

\* What C14 says of one GET /api/me and one GET /logout: the probe reports
\* authenticated true exactly when the session's user_id names a user, then
\* with that user's email and verification status, and changes nothing;
\* logout leaves the session empty
MeReflectsSession ==
    \A c \in Callers :
        LET o == MeResult(c)
            named == { i \in session[c] : i \in DOMAIN users } IN
        /\ o.users = users /\ o.session = session[c]
        /\ Cardinality(o.resp.me) = 1
        /\ \A me \in o.resp.me :
             /\ me.authenticated <=> named # {}
             /\ \A i \in named :
                  /\ me.email = users[i].email
                  /\ me.email_verified <=> users[i].email_verified_at # {}
        /\ LogoutResult(c).session = {}

\* What C14 says of every request: the answer of /api/me is the one the
\* session it leaves calls for, a logout leaves the session empty, and an
\* empty session is bound again only by a successful signup, login, verify
\* or reset of that client
SessionBoundBySuccess ==
    /\ resp'.ep = "me" =>
         \A me \in resp'.me : me.authenticated <=> session'[resp'.client] # {}
    /\ resp'.ep = "logout" => session'[resp'.client] = {}
    /\ \A c \in Clients :
         (session[c] = {} /\ session'[c] # {}) =>
             /\ resp'.client = c
             /\ resp'.ep \in {"signup", "login", "verify", "reset"}
             /\ resp'.status \in {200, 302}

\* C14: /api/me reports authenticated true exactly when the client's session
\* holds a user_id that names an existing user, and then reports that user's
\* email and verification status; after GET /logout the session is empty and
\* /api/me reports authenticated false until the next successful signup,
\* login, verify or reset by that client.
C14_MeReflectsSession == [] MeReflectsSession /\ [][SessionBoundBySuccess]_vars

\* /api/me answered a client that had logged out of a verified account
C14_Witness ==
    /\ resp.ep = "me" /\ resp.me = {[authenticated |-> FALSE]}
    /\ session[resp.client] = {}
    /\ \E i \in UserIds : users[i].email_verified_at # {}

\* C15: POST /login binds the session to a user only when the normalized
\* email names an existing user, the password matches that user's hash and
\* the user's email_verified_at is set; an unknown email and a wrong password
\* get the same 401 response, a correct password for an unverified user gets
\* 403, and on 401 and 403 the session and the users table are unchanged.
C15_LoginBindsVerifiedOnly ==
    \A c \in Callers, raw \in RawEmails, pw \in LoginPasswords :
        LET o == LoginResult(c, raw, pw)
            named == { i \in UserIds : users[i].email = Lower(Strip(raw)) }
            matching == { i \in named : users[i].password_hash = PasswordHash(pw) } IN
        /\ o.users = users
        /\ o.resp.status \in {302, 401, 403}
        /\ o.resp.status = 302 =>
             \E i \in matching : users[i].email_verified_at # {} /\ o.session = {i}
        /\ o.resp.status # 302 => o.session = session[c]
        /\ matching = {} =>
             /\ o.resp.status = 401
             /\ Visible(o.resp) = [status |-> 401, msg |-> "Invalid email or password.",
                                   dev_link |-> {}, me |-> {}]
        /\ (\E i \in matching : users[i].email_verified_at = {}) => o.resp.status = 403

\* A login with the right password for the second user, who is unverified,
\* was answered 403 and left the session with the first user
C15_Witness ==
    /\ resp.ep = "login" /\ resp.status = 403
    /\ Len(users) = 2
    /\ users[1].email_verified_at # {} /\ users[2].email_verified_at = {}
    /\ session[resp.client] = {1}

\* C16 as stated: in every reachable state of the auth flow, a session that
\* holds a user_id is bound to a user whose email has been verified.
C16_SessionsVerified ==
    \A c \in Clients : \A i \in session[c] :
        i \in UserIds /\ users[i].email_verified_at # {}

\* A session that holds a user_id names a user of the table
SessionNamesUser == \A c \in Clients : session[c] \subseteq UserIds

\* A login or a verification that succeeds leaves the session with a
\* verified user, and a request that binds a session to an unverified user is
\* a successful signup or reset
UnverifiedBoundBySignupOrReset ==
    /\ (\/ resp'.ep = "login" /\ resp'.status = 302
        \/ resp'.ep = "verify" /\ resp'.status = 200) =>
           /\ session'[resp'.client] # {}
           /\ \A i \in session'[resp'.client] : users'[i].email_verified_at # {}
    /\ \A c \in Clients :
         (session'[c] # session[c] /\ \E i \in session'[c] : users'[i].email_verified_at = {}) =>
             /\ resp'.client = c
             /\ \/ resp'.ep = "signup" /\ resp'.status = 200
                \/ resp'.ep = "reset" /\ resp'.status = 302

\* C16 as amended: a session that holds a user_id is bound to an existing
\* user; login and verification bind it only to a user whose
\* email_verified_at is set, while signup binds it to the new, unverified
\* user and reset to the token's user whether verified or not.
C16_SessionsVerifiedButSignupAndReset ==
    [] SessionNamesUser /\ [][UnverifiedBoundBySignupOrReset]_vars

\* A reset bound the session to the second user, who is unverified, while
\* the first user is verified
C16_Witness ==
    /\ resp.ep = "reset" /\ resp.status = 302
    /\ Len(users) = 2
    /\ users[1].email_verified_at # {} /\ users[2].email_verified_at = {}
    /\ users[2].password_hash = PasswordHash("password2")
    /\ session[resp.client] = {2}

----------------------------------------------------------------------------
(* Properties of the book-list cache *)

\* A GET whose outcome makes _fetch_book_title raise
Raising(outcome) == outcome \in {"403", "ConnectionError", "Timeout", "RetryError"}

\* C17: every entry of the book-list cache holds exactly 15 books in
\* BOOK_SLUGS order and a positive timestamp; when a title fetch of the
\* fallback path fails, whichever of the 15 books it is for, the lookup
\* leaves the entry of the language as it was (absent or the previous one)
\* and the request stores and returns no partial list.
C17_CacheEntriesComplete ==
    /\ \A lang \in CacheKeys : \A hit \in cache[lang] :
         /\ hit.at > 0
         /\ Len(hit.data) = 15
         /\ \A i \in 1..15 : hit.data[i].abbr = BOOK_SLUGS[i]
    /\ \A lang \in CacheKeys, scen \in FetchScenarios :
         LET g == GetBooksForLang(lang, now, scen)
             r == BooksResponse(lang, g) IN
         /\ (BooksFetches(lang) /\ \E i \in 1..15 : Raising(scen[i])) =>
                /\ g.cache = cache
                /\ r.status = 500
                /\ DOMAIN r.body = {"error"}
         /\ r.status = 200 => Len(r.body.books) = 15

\* The rebuild of an expired entry failed at a book part-way through the
\* list, after the fetches before it had succeeded, and the expired entry is
\* still in the cache
C17_Witness ==
    /\ apiResp.ep = "books" /\ apiResp.status = 500
    /\ apiResp.found = "stale"
    /\ apiResp.fetches = PartWay
    /\ \E hit \in cache[apiResp.lang] : hit.at < now /\ Len(hit.data) = 15

====
